---- MODULE Spec2Model ----
(***************************************************************************)
(* Receive-side UDP actor of the magicsock (hp/magicsock/udp_actor.rs):    *)
(* the run loop (a biased select over the control channel and the packet   *)
(* stream), the stream's poll_next (closure check, output queue, batched   *)
(* IPv6-then-IPv4 read, GRO splitting) and the classification of each      *)
(* packet into STUN / disco / forward.                                     *)
(***************************************************************************)
EXTENDS Integers, Sequences, FiniteSets, TLC

(***************************************************************************)
(* Bounds of the model.                                                    *)
(***************************************************************************)
\* most bytes one batched read reports (over all its slots; an empty
\* datagram counts as one)
MaxBytes == 2
\* capacity of the transport channel (ip_sender)
IpCap == 1
\* longest slot and largest stride of the stand-alone splitter runs
MaxLen == 3

Byte == 0..2
Addrs == {"p"}

Min(a, b) == IF a <= b THEN a ELSE b
Max(a, b) == IF a >= b THEN a ELSE b

(***************************************************************************)
(* Collaborators that live outside udp_actor.rs, modelled from their       *)
(* contract: pure predicates of the packet's bytes.  The first byte        *)
(* decides: 1 marks a STUN message, 1 and 2 both open the disco prefix, so *)
(* that a packet can match the STUN predicate, the disco prefix, both or   *)
(* neither.                                                                *)
(***************************************************************************)
KEY_LEN == 1

\* stun::is(&packet)
stun_is(packet) == Len(packet) >= 1 /\ packet[1] = 1

\* disco::source_and_box(&packet): the key and the sealed box after the magic
disco_source_and_box(packet) ==
    IF Len(packet) >= 1 + KEY_LEN /\ packet[1] \in {1, 2}
    THEN [some |-> TRUE,
          source |-> SubSeq(packet, 2, 1 + KEY_LEN),
          sealed_box |-> SubSeq(packet, 2 + KEY_LEN, Len(packet))]
    ELSE [some |-> FALSE, source |-> <<>>, sealed_box |-> <<>>]

(***************************************************************************)
(* Data                                                                    *)
(***************************************************************************)
\* quinn_udp::RecvMeta (the fields the actor reads or rewrites)
RecvMeta(addr, len, stride) == [addr |-> addr, len |-> len, stride |-> stride]

\* one element of out_buffer: (Bytes, Network, RecvMeta)
Item(packet, network, meta) == [bytes |-> packet, network |-> network, meta |-> meta]

\* IpPacket::Disco
Disco(source, sealed_box, src) ==
    [type |-> "Disco", source |-> source, sealed_box |-> sealed_box, src |-> src]

\* IpPacket::Forward(NetworkReadResult::Ok)
ForwardOk(source, meta, packet) ==
    [type |-> "Forward",
     res |-> [kind |-> "Ok", source |-> source, meta |-> meta, bytes |-> packet]]

\* IpPacket::Forward(NetworkReadResult::Error)
ForwardError(err) == [type |-> "Forward", res |-> [kind |-> "Error", err |-> err]]

NoMsg == [type |-> "None"]

(***************************************************************************)
(* Segment splitter: lines 208-218 (IPv6) and 232-242 (IPv4) of poll_next  *)
(***************************************************************************)
\* a variant that pushes at the front of the queue
handle_packet_PushFront(q, packet, network, meta) ==
    <<Item(packet, network, meta)>> \o q

\* self.out_buffer.push_back((packet, network, meta))
handle_packet(q, packet, network, meta) == Append(q, Item(packet, network, meta))

\* let mut data: BytesMut = buf[0..meta.len].into()
SlotData(slot) == SubSeq(slot.buf, 1, slot.meta.len)

\* a variant that leaves meta.stride as the slot reported it
SplitOnce_KeepStride(data, stride, meta) ==
    LET n == Min(stride, Len(data))
        buf == SubSeq(data, 1, n)
    IN [buf |-> buf,
        rest |-> SubSeq(data, n + 1, Len(data)),
        meta |-> [meta EXCEPT !.len = Len(buf)]]

\* a variant that never cuts a piece up to the last byte of the data
SplitOnce_OffByOne(data, stride, meta) ==
    LET n == IF Len(data) > 1 THEN Min(stride, Len(data) - 1) ELSE Min(stride, Len(data))
        buf == SubSeq(data, 1, n)
    IN [buf |-> buf,
        rest |-> SubSeq(data, n + 1, Len(data)),
        meta |-> [meta EXCEPT !.len = Len(buf), !.stride = Len(buf)]]

\* a variant that gives each piece a fresh default metadata record
SplitOnce_FreshMeta(data, stride, meta) ==
    LET n == Min(stride, Len(data))
        buf == SubSeq(data, 1, n)
    IN [buf |-> buf,
        rest |-> SubSeq(data, n + 1, Len(data)),
        meta |-> RecvMeta("none", Len(buf), Len(buf))]

\* one turn of the while loop: data.split_to(stride.min(data.len())), then
\* meta.len and meta.stride are set to the length of the piece
SplitOnce(data, stride, meta) ==
    LET n == Min(stride, Len(data))
        buf == SubSeq(data, 1, n)
    IN [buf |-> buf,
        rest |-> SubSeq(data, n + 1, Len(data)),
        meta |-> [meta EXCEPT !.len = Len(buf), !.stride = Len(buf)]]

\* while !data.is_empty() { ... self.handle_packet(buf, network, meta) }
\* (stride is read from the slot's meta once, before the loop)
RECURSIVE SplitLoop(_, _, _, _, _)
SplitLoop(q, data, stride, meta, network) ==
    IF data = <<>> THEN q
    ELSE LET s == SplitOnce(data, stride, meta)
         IN SplitLoop(handle_packet(q, s.buf, network, s.meta),
                      s.rest, stride, s.meta, network)

\* for (mut meta, buf) in metas.into_iter().zip(iovs.iter()).take(msgs)
RECURSIVE SplitBatch(_, _, _)
SplitBatch(q, slots, network) ==
    IF slots = <<>> THEN q
    ELSE LET slot == Head(slots)
         IN SplitBatch(SplitLoop(q, SlotData(slot), slot.meta.stride, slot.meta, network),
                       Tail(slots), network)

(***************************************************************************)
(* What a reader (RebindingUdpConn::poll_recv) can answer                  *)
(***************************************************************************)
PollPending == [kind |-> "Pending", slots |-> <<>>]
PollOk(slots) == [kind |-> "Ok", slots |-> slots]
PollErr == [kind |-> "Err", slots |-> <<>>]

ByteSeqs(n) == [1..n -> Byte]

\* a slot as the kernel reports it: stride is the datagram size of a
\* coalesced receive, the length itself otherwise (0 for an empty datagram)
Strides(len) == IF len = 0 THEN {0} ELSE 1..len

Slots ==
    UNION {{[buf |-> d, meta |-> RecvMeta(a, len, s)] :
              d \in ByteSeqs(len), a \in Addrs, s \in Strides(len)} :
           len \in 0..MaxBytes}

SlotCost(slot) == Max(1, slot.meta.len)

BatchesUpTo[c \in 0..MaxBytes] ==
    {<<>>} \cup
    UNION {{<<s>> \o b : b \in BatchesUpTo[c - SlotCost(s)]} :
           s \in {t \in Slots : SlotCost(t) <= c}}

\* msgs >= 1 slots, at most MaxBytes bytes in all
AllBatches == BatchesUpTo[MaxBytes] \ {<<>>}

Answers == {PollPending, PollErr} \cup {PollOk(b) : b \in AllBatches}

\* one datagram of each class: plain, STUN, disco
SampleDatagrams == {<<0>>, <<1>>, <<2, 0>>}

\* the answers of a socket without receive coalescing that is read one
\* datagram at a time
UngroupedAnswers ==
    {PollPending, PollErr} \cup
    {PollOk(<<[buf |-> d, meta |-> RecvMeta(a, Len(d), Len(d))]>>) :
       d \in SampleDatagrams, a \in Addrs}

(***************************************************************************)
(* Stream::poll_next, lines 182-253                                        *)
(***************************************************************************)
NoItem == Item(<<>>, "None", RecvMeta("none", 0, 0))

PollLog(network, q, r, q1) ==
    [net |-> network, qlen |-> Len(q), res |-> r.kind, pkts |-> Len(q1) - Len(q)]

\* one reader's arm: the match on poll_recv (lines 205-226, 229-250)
RecvArm(q, network, r) ==
    CASE r.kind = "Pending" ->
           [ret |-> "Continue", item |-> NoItem, q |-> q,
            log |-> PollLog(network, q, r, q)]
      [] r.kind = "Ok" ->
           LET q1 == SplitBatch(q, r.slots, network)
           IN IF q1 # <<>>
              THEN [ret |-> "Item", item |-> Head(q1), q |-> Tail(q1),
                    log |-> PollLog(network, q, r, q1)]
              ELSE [ret |-> "Continue", item |-> NoItem, q |-> q1,
                    log |-> PollLog(network, q, r, q1)]
      [] r.kind = "Err" ->
           [ret |-> "Err", item |-> NoItem, q |-> q,
            log |-> PollLog(network, q, r, q)]

\* a variant that drains the queue before it looks at the closed flag
poll_next_DrainFirst(isClosed, q, has6, r6, r4) ==
    IF q # <<>>
    THEN [ret |-> "Item", item |-> Head(q), q |-> Tail(q), polls |-> <<>>, wakers |-> {}]
    ELSE IF isClosed
    THEN [ret |-> "None", item |-> NoItem, q |-> q, polls |-> <<>>, wakers |-> {}]
    ELSE
      LET a6 == IF has6 THEN RecvArm(q, "Ipv6", r6)
                ELSE [ret |-> "Skip", item |-> NoItem, q |-> q, log |-> <<>>]
          log6 == IF has6 THEN <<a6.log>> ELSE <<>>
          w6 == IF has6 /\ r6.kind = "Pending" THEN {"Ipv6"} ELSE {}
      IN IF a6.ret \in {"Item", "Err"}
         THEN [ret |-> a6.ret, item |-> a6.item, q |-> a6.q, polls |-> log6, wakers |-> w6]
         ELSE
           LET a4 == RecvArm(a6.q, "Ipv4", r4)
               w4 == IF r4.kind = "Pending" THEN {"Ipv4"} ELSE {}
           IN [ret |-> IF a4.ret = "Continue" THEN "Pending" ELSE a4.ret,
               item |-> a4.item, q |-> a4.q,
               polls |-> Append(log6, a4.log), wakers |-> w6 \cup w4]

\* a variant that reads the sockets without draining the queue first
poll_next_NoDrain(isClosed, q, has6, r6, r4) ==
    IF isClosed
    THEN [ret |-> "None", item |-> NoItem, q |-> q, polls |-> <<>>, wakers |-> {}]
    ELSE
      LET a6 == IF has6 THEN RecvArm(q, "Ipv6", r6)
                ELSE [ret |-> "Skip", item |-> NoItem, q |-> q, log |-> <<>>]
          log6 == IF has6 THEN <<a6.log>> ELSE <<>>
          w6 == IF has6 /\ r6.kind = "Pending" THEN {"Ipv6"} ELSE {}
      IN IF a6.ret \in {"Item", "Err"}
         THEN [ret |-> a6.ret, item |-> a6.item, q |-> a6.q, polls |-> log6, wakers |-> w6]
         ELSE
           LET a4 == RecvArm(a6.q, "Ipv4", r4)
               w4 == IF r4.kind = "Pending" THEN {"Ipv4"} ELSE {}
           IN [ret |-> IF a4.ret = "Continue" THEN "Pending" ELSE a4.ret,
               item |-> a4.item, q |-> a4.q,
               polls |-> Append(log6, a4.log), wakers |-> w6 \cup w4]

\* a variant that polls the IPv4 reader first and the IPv6 reader second
poll_next_V4First(isClosed, q, has6, r6, r4) ==
    IF isClosed
    THEN [ret |-> "None", item |-> NoItem, q |-> q, polls |-> <<>>, wakers |-> {}]
    ELSE IF q # <<>>
    THEN [ret |-> "Item", item |-> Head(q), q |-> Tail(q), polls |-> <<>>, wakers |-> {}]
    ELSE
      LET a4 == RecvArm(q, "Ipv4", r4)
          w4 == IF r4.kind = "Pending" THEN {"Ipv4"} ELSE {}
      IN IF a4.ret \in {"Item", "Err"} \/ ~has6
         THEN [ret |-> IF a4.ret = "Continue" THEN "Pending" ELSE a4.ret,
               item |-> a4.item, q |-> a4.q, polls |-> <<a4.log>>, wakers |-> w4]
         ELSE
           LET a6 == RecvArm(a4.q, "Ipv6", r6)
               w6 == IF r6.kind = "Pending" THEN {"Ipv6"} ELSE {}
           IN [ret |-> IF a6.ret = "Continue" THEN "Pending" ELSE a6.ret,
               item |-> a6.item, q |-> a6.q,
               polls |-> <<a4.log, a6.log>>, wakers |-> w6 \cup w4]

\* a variant that goes on to read the IPv4 socket after an IPv6 read that
\* has produced packets
poll_next_ReadBoth(isClosed, q, has6, r6, r4) ==
    IF isClosed
    THEN [ret |-> "None", item |-> NoItem, q |-> q, polls |-> <<>>, wakers |-> {}]
    ELSE IF q # <<>>
    THEN [ret |-> "Item", item |-> Head(q), q |-> Tail(q), polls |-> <<>>, wakers |-> {}]
    ELSE
      LET a6 == IF has6 THEN RecvArm(q, "Ipv6", r6)
                ELSE [ret |-> "Skip", item |-> NoItem, q |-> q, log |-> <<>>]
          log6 == IF has6 THEN <<a6.log>> ELSE <<>>
          w6 == IF has6 /\ r6.kind = "Pending" THEN {"Ipv6"} ELSE {}
          w4 == IF r4.kind = "Pending" THEN {"Ipv4"} ELSE {}
      IN IF a6.ret = "Err"
         THEN [ret |-> a6.ret, item |-> a6.item, q |-> a6.q, polls |-> log6, wakers |-> w6]
         ELSE IF a6.ret = "Item"
         THEN LET q4 == IF r4.kind = "Ok" THEN SplitBatch(a6.q, r4.slots, "Ipv4") ELSE a6.q
              IN [ret |-> "Item", item |-> a6.item, q |-> q4,
                  polls |-> Append(log6, PollLog("Ipv4", a6.q, r4, q4)),
                  wakers |-> w6 \cup w4]
         ELSE
           LET a4 == RecvArm(a6.q, "Ipv4", r4)
           IN [ret |-> IF a4.ret = "Continue" THEN "Pending" ELSE a4.ret,
               item |-> a4.item, q |-> a4.q,
               polls |-> Append(log6, a4.log), wakers |-> w6 \cup w4]

\* closed: conn.is_closed(); q: out_buffer; has6: pconn6.is_some();
\* r6, r4: what pconn6.poll_recv and pconn4.poll_recv answer if they are called.
\* ret is None (end of stream), Item, Err or Pending; polls lists the reads
\* issued, in order; wakers the readers that answered Pending (and so hold
\* the task's waker).
poll_next(isClosed, q, has6, r6, r4) ==
    IF isClosed
    THEN [ret |-> "None", item |-> NoItem, q |-> q, polls |-> <<>>, wakers |-> {}]
    ELSE IF q # <<>>
    THEN [ret |-> "Item", item |-> Head(q), q |-> Tail(q), polls |-> <<>>, wakers |-> {}]
    ELSE
      LET a6 == IF has6 THEN RecvArm(q, "Ipv6", r6)
                ELSE [ret |-> "Skip", item |-> NoItem, q |-> q, log |-> <<>>]
          log6 == IF has6 THEN <<a6.log>> ELSE <<>>
          w6 == IF has6 /\ r6.kind = "Pending" THEN {"Ipv6"} ELSE {}
      IN IF a6.ret \in {"Item", "Err"}
         THEN [ret |-> a6.ret, item |-> a6.item, q |-> a6.q, polls |-> log6, wakers |-> w6]
         ELSE
           LET a4 == RecvArm(a6.q, "Ipv4", r4)
               w4 == IF r4.kind = "Pending" THEN {"Ipv4"} ELSE {}
           IN [ret |-> IF a4.ret = "Continue" THEN "Pending" ELSE a4.ret,
               item |-> a4.item, q |-> a4.q,
               polls |-> Append(log6, a4.log), wakers |-> w6 \cup w4]

Polled(p, network) == \E i \in 1..Len(p.polls) : p.polls[i].net = network

(***************************************************************************)
(* Classification and dispatch: the body of the second select arm,         *)
(* lines 100-166                                                           *)
(***************************************************************************)
\* a variant that tests the disco prefix before the STUN predicate
Classify_DiscoFirst(item) ==
    IF disco_source_and_box(item.bytes).some THEN "disco"
    ELSE IF stun_is(item.bytes) THEN "stun"
    ELSE "forward"

\* the order of the tests at lines 109, 120, 138
Classify(item) ==
    IF stun_is(item.bytes) THEN "stun"
    ELSE IF disco_source_and_box(item.bytes).some THEN "disco"
    ELSE "forward"

\* a variant that tags a packet with the other address family
NetworkSource_Swapped(network) == IF network = "Ipv4" THEN "Ipv6" ELSE "Ipv4"

\* the match on network at lines 138-149
NetworkSource(network) == IF network = "Ipv4" THEN "Ipv4" ELSE "Ipv6"

\* a variant that forwards a read error as a packet
IpMsg_ErrorAsOk(ret, item) ==
    IF ret # "Err" /\ Classify(item) = "disco"
    THEN LET d == disco_source_and_box(item.bytes)
         IN Disco(d.source, d.sealed_box, item.meta.addr)
    ELSE ForwardOk(NetworkSource(item.network), item.meta, item.bytes)

\* the message handed to ip_sender for a pulled result
IpMsg(ret, item) ==
    IF ret = "Err" THEN ForwardError("io")
    ELSE IF Classify(item) = "disco"
    THEN LET d == disco_source_and_box(item.bytes)
         IN Disco(d.source, d.sealed_box, item.meta.addr)
    ELSE ForwardOk(NetworkSource(item.network), item.meta, item.bytes)

\* The STUN channel belongs to netcheck; the actor meets it only in
\* stun_packet_channel.try_send(msg), which never suspends: the message is
\* queued when the channel has room, and handed back in an error when the
\* channel is full or its receiver is gone
StunChanStates == {"room", "full", "closed"}

try_send(chanState) ==
    IF chanState = "room" THEN "Ok" ELSE IF chanState = "full" THEN "Full" ELSE "Closed"

\* lines 110-116: the flag is loaded, and only when it is set is the packet
\* offered; the result of try_send is dropped by .ok()
StunOffer(enabled, chanState) == IF enabled THEN try_send(chanState) ELSE "off"

\* a variant that ends the loop when the STUN packet could not be queued
AfterStun_FatalOnError(offer) == IF offer \in {"Full", "Closed"} THEN "done" ELSE "select"

\* line 117: continue, whatever became of the packet
AfterStun(offer) == "select"

\* the first poll of ip_sender.send(msg): an error when the receiver is
\* gone, queued when there is room, suspended otherwise
SendPoll(chan, open) ==
    IF ~open THEN "closed" ELSE IF Len(chan) < IpCap THEN "sent" ELSE "blocked"

\* a variant that gives up when the transport channel is full
AfterSend_FatalOnFull(res) == IF res = "sent" THEN "select" ELSE "done"

\* a variant that goes on with the loop after a failed send
AfterSend_IgnoreError(res) ==
    IF res = "blocked" THEN "send" ELSE "select"

\* where the loop goes after `.await.is_err()`: break on an error
\* (lines 129-133, 151-154, 157-164), the next iteration otherwise
AfterSend(res) ==
    IF res = "closed" THEN "done" ELSE IF res = "sent" THEN "select" ELSE "send"

\* ip_sender.send(msg) as the task's cooperative budget lets it run: with no
\* unit left the send answers Pending before it looks at the channel, the
\* task yields with the message in hand, and is polled again at once
CoopSendPoll(chan, open, noBudget) ==
    IF noBudget THEN "yield" ELSE SendPoll(chan, open)

\* what becomes of the budget in an iteration that goes on to the next select:
\* a send that completed took a unit, which may have been the last one (the
\* runtime's count of units is not followed); a packet offered to the probe
\* channel with try_send takes none; a task that was polled again has all
\* its units
BudgetAfter(class, res, noBudget) ==
    IF res = "sent" THEN BOOLEAN
    ELSE IF class = "stun" THEN {noBudget}
    ELSE {FALSE}

\* tokio::select! { biased; Some(msg) = msg_receiver.recv() => ..., msg = self.next() => ... }
\* (lines 89-99): the control arm wins whenever a message is there and
\* msg_receiver.recv() delivers it.  recv() takes a unit of the task's
\* cooperative budget; in a build whose select does not check the budget
\* itself, recv() answers Pending once the units are used up, message or
\* not, and the select goes on to the stream arm
SelectBranch(c, noBudget) == IF c # <<>> /\ ~noBudget THEN "ctrl" ELSE "stream"

(***************************************************************************)
(* The datagrams a slot stands for, by the meaning of the stride (spec     *)
(* 4.3): consecutive pieces of `stride` bytes, the last one shorter.       *)
(* Used only to state what the consumer is owed.                           *)
(***************************************************************************)
Datagram(packet, network, addr) == [bytes |-> packet, network |-> network, addr |-> addr]

CeilDiv(a, b) == (a + b - 1) \div b

SlotDatagrams(slot, network) ==
    LET len == slot.meta.len
        st == slot.meta.stride
        n == IF len = 0 THEN 0 ELSE CeilDiv(len, st)
    IN [i \in 1..n |->
          Datagram(SubSeq(slot.buf, (i - 1) * st + 1, Min(i * st, len)),
                   network, slot.meta.addr)]

RECURSIVE BatchDatagrams(_, _)
BatchDatagrams(slots, network) ==
    IF slots = <<>> THEN <<>>
    ELSE SlotDatagrams(Head(slots), network) \o BatchDatagrams(Tail(slots), network)

ReadDatagrams(r, network) ==
    IF r.kind = "Ok" THEN BatchDatagrams(r.slots, network) ELSE <<>>

NonProbe(dgrams) == SelectSeq(dgrams, LAMBDA d : ~stun_is(d.bytes))

(***************************************************************************)
(* State                                                                   *)
(***************************************************************************)
VARIABLES
    pc,                   \* where run() is: "select", "parked" (the select is
                          \* pending), "send" (inside ip_sender.send().await), "done"
    ctrl,                 \* msg_receiver: the control messages in flight
    ctrlOpen,             \* some sender of the control channel is alive
    closed,               \* conn.is_closed()
    pconn6,               \* pconn6.is_some()
    out_buffer,           \* self.out_buffer
    wakers,               \* who holds the task's waker while it is parked
    ip_chan, ipOpen,      \* ip_sender's channel and whether its receiver lives
    sending,              \* the message of the suspended ip_sender.send
    pending,              \* datagrams read and owed to the transport consumer
    last,                 \* what the latest step of the actor did
    spent,                \* the task has used up its cooperative budget since
                          \* it was last polled by the runtime
    split                 \* a stand-alone run of the split loop

vars == <<pc, ctrl, ctrlOpen, closed, pconn6, out_buffer,
          wakers, ip_chan, ipOpen, sending, pending, last, spent, split>>

\* br: the select arm taken ("ctrl", "stream") or "resume" of a suspended send;
\* ret: what poll_next returned; polls: the reads it issued; bytes: the packet
\* it returned; class: how the result was classified; send: how ip_sender.send went; flag: what
\* enable_stun_packets held when a STUN packet was classified; stun: what became
\* of a STUN packet ("off": not offered)
LastOf(br, ret, polls, bytes, class, send, flag, stun) ==
    [br |-> br, ret |-> ret, polls |-> polls, bytes |-> bytes, class |-> class,
     send |-> send, flag |-> flag, stun |-> stun]

\* the split loop on its own: the slot it was given, the stride read before
\* the loop, the bytes still to cut, the loop's meta, the packets pushed
SplitIdle ==
    [pc |-> "idle", slot |-> [buf |-> <<>>, meta |-> RecvMeta("none", 0, 0)],
     network |-> "None", stride |-> 0, data |-> <<>>,
     meta |-> RecvMeta("none", 0, 0), out |-> <<>>]

\* UdpActor::new (lines 63-80) and the channels as run() receives them
ActorInit ==
    /\ pc = "select"
    /\ ctrl = <<>>
    /\ ctrlOpen = TRUE
    /\ closed = FALSE
    /\ pconn6 \in BOOLEAN
    /\ out_buffer = <<>>
    /\ wakers = {}
    /\ ip_chan = <<>>
    /\ ipOpen = TRUE
    /\ sending = NoMsg
    /\ pending = <<>>
    /\ last = LastOf("init", "-", <<>>, <<>>, "-", "-", "-", "-")
    /\ spent = FALSE

Init == ActorInit /\ split = SplitIdle

(***************************************************************************)
(* One iteration of the loop of run(), lines 88-171, up to its next        *)
(* suspension point                                                        *)
(***************************************************************************)
IsForwardOk(m) == m.type = "Forward" /\ m.res.kind = "Ok"

PacketMsg(m) == m.type = "Disco" \/ IsForwardOk(m)

\* answers: what a batched read may answer
Iteration(answers) ==
    /\ pc = "select"
    /\ UNCHANGED <<ctrlOpen, closed, pconn6, ipOpen, split>>
    /\ IF SelectBranch(ctrl, spent) = "ctrl"
       THEN \* UdpActorMessage::Shutdown => break
            /\ ctrl' = Tail(ctrl)
            /\ pc' = "done"
            /\ spent' = FALSE
            /\ last' = LastOf("ctrl", "-", <<>>, <<>>, "-", "-", "-", "-")
            /\ UNCHANGED <<out_buffer, wakers, ip_chan, sending, pending>>
       ELSE \* msg = self.next()
            /\ UNCHANGED ctrl
            /\ \E p0 \in {poll_next(closed, out_buffer, pconn6, PollPending, PollPending)} :
               \E r6 \in (IF Polled(p0, "Ipv6") THEN answers ELSE {PollPending}) :
               \E p1 \in {poll_next(closed, out_buffer, pconn6, r6, PollPending)} :
               \E r4 \in (IF Polled(p1, "Ipv4") THEN answers ELSE {PollPending}) :
               \E p \in {poll_next(closed, out_buffer, pconn6, r6, r4)} :
               \E class \in {IF p.ret = "Item" THEN Classify(p.item)
                             ELSE IF p.ret = "Err" THEN "error" ELSE "-"} :
               \E enabled \in (IF class = "stun" THEN BOOLEAN ELSE {FALSE}),
                  chanState \in (IF class = "stun" THEN StunChanStates ELSE {"room"}) :
               \E msg \in {IpMsg(p.ret, p.item)},
                  res \in {IF class \in {"disco", "forward", "error"}
                           THEN CoopSendPoll(ip_chan, ipOpen, spent) ELSE "-"},
                  offer \in {IF class = "stun" THEN StunOffer(enabled, chanState) ELSE "-"} :
                     /\ pc' = CASE p.ret = "None" -> "done"
                                [] p.ret = "Pending" -> IF spent THEN "select" ELSE "parked"
                                [] class = "stun" -> AfterStun(offer)
                                [] OTHER -> AfterSend(res)
                     /\ out_buffer' = p.q
                     /\ ip_chan' = IF res = "sent" THEN Append(ip_chan, msg) ELSE ip_chan
                     /\ sending' = IF res \in {"blocked", "yield"} THEN msg ELSE NoMsg
                     /\ spent' \in (IF p.ret \in {"Item", "Err"}
                                    THEN BudgetAfter(class, res, spent) ELSE {FALSE})
                     /\ wakers' = IF p.ret = "Pending" /\ ~spent
                                  THEN p.wakers \cup (IF ctrlOpen THEN {"ctrl"} ELSE {})
                                  ELSE {}
                     /\ pending' = pending \o NonProbe(ReadDatagrams(r6, "Ipv6"))
                                           \o NonProbe(ReadDatagrams(r4, "Ipv4"))
                     /\ last' = LastOf("stream", p.ret, p.polls, p.item.bytes, class, res,
                                       IF class # "stun" THEN "-"
                                       ELSE IF enabled THEN "on" ELSE "off",
                                       offer)

RunSelect == Iteration(Answers)

\* ip_sender.send(msg).await completes: room was made, the receiver went
\* away, or the task that had yielded for want of budget is polled again
SendResume ==
    /\ pc = "send"
    /\ LET res == SendPoll(ip_chan, ipOpen)
       IN /\ res # "blocked"
          /\ pc' = AfterSend(res)
          /\ ip_chan' = IF res = "sent" THEN Append(ip_chan, sending) ELSE ip_chan
          /\ sending' = NoMsg
          /\ last' = LastOf("resume", "-", <<>>, <<>>, last.class, res, "-", "-")
          /\ spent' = FALSE
    /\ UNCHANGED <<ctrl, ctrlOpen, closed, pconn6, out_buffer,
                   wakers, ipOpen, pending, split>>

(***************************************************************************)
(* The environment: the owner of the actor, the sockets, the two consumers *)
(***************************************************************************)
\* a parked task runs again when a holder of its waker fires
Wake(who) == IF pc = "parked" /\ who \in wakers THEN "select" ELSE pc

\* the owner sends UdpActorMessage::Shutdown
SendShutdown ==
    /\ pc # "done" /\ ctrlOpen /\ ctrl = <<>>
    /\ ctrl' = <<"Shutdown">>
    /\ pc' = Wake("ctrl")
    /\ UNCHANGED <<ctrlOpen, closed, pconn6, out_buffer,
                   wakers, ip_chan, ipOpen, sending,
                   pending, last, spent, split>>

\* every sender of the control channel is dropped without a Shutdown
DropCtrl ==
    /\ pc # "done" /\ ctrlOpen /\ ctrl = <<>>
    /\ ctrlOpen' = FALSE
    /\ pc' = Wake("ctrl")
    /\ UNCHANGED <<ctrl, closed, pconn6, out_buffer,
                   wakers, ip_chan, ipOpen, sending,
                   pending, last, spent, split>>

\* the owning connection is marked closed
Close ==
    /\ pc # "done" /\ ~closed
    /\ closed' = TRUE
    /\ UNCHANGED <<pc, ctrl, ctrlOpen, pconn6, out_buffer,
                   wakers, ip_chan, ipOpen, sending,
                   pending, last, spent, split>>

\* the IPv6 socket becomes readable and wakes the task it has registered
Ready6 ==
    /\ pc = "parked" /\ "Ipv6" \in wakers
    /\ pc' = Wake("Ipv6")
    /\ UNCHANGED <<ctrl, ctrlOpen, closed, pconn6, out_buffer,
                   wakers, ip_chan, ipOpen, sending,
                   pending, last, spent, split>>

\* the IPv4 socket becomes readable and wakes the task it has registered
Ready4 ==
    /\ pc = "parked" /\ "Ipv4" \in wakers
    /\ pc' = Wake("Ipv4")
    /\ UNCHANGED <<ctrl, ctrlOpen, closed, pconn6, out_buffer,
                   wakers, ip_chan, ipOpen, sending,
                   pending, last, spent, split>>

\* the transport consumer takes a message; the channel outlives the actor,
\* so what was sent is still received after run() has returned
IpRecv ==
    /\ ipOpen /\ ip_chan # <<>>
    /\ ip_chan' = Tail(ip_chan)
    /\ pending' = IF PacketMsg(Head(ip_chan)) THEN Tail(pending) ELSE pending
    /\ UNCHANGED <<pc, ctrl, ctrlOpen, closed, pconn6, out_buffer,
                   wakers, ipOpen, sending, last, spent, split>>

\* the transport consumer goes away, before or after the actor has ended
IpClose ==
    /\ ipOpen
    /\ ipOpen' = FALSE
    /\ ip_chan' = <<>>
    /\ UNCHANGED <<pc, ctrl, ctrlOpen, closed, pconn6, out_buffer,
                   wakers, sending, pending, last, spent, split>>

Next ==
    \/ RunSelect
    \/ SendResume
    \/ SendShutdown
    \/ DropCtrl
    \/ Close
    \/ Ready6
    \/ Ready4
    \/ IpRecv
    \/ IpClose

Spec == Init /\ [][Next]_vars

\* The actor on sockets without receive coalescing.  It is a spawned task:
\* whenever it can run, it eventually does.
RunSelectUngrouped == Iteration(UngroupedAnswers)

FairNext ==
    \/ RunSelectUngrouped
    \/ SendResume
    \/ SendShutdown
    \/ DropCtrl
    \/ Close
    \/ Ready6
    \/ Ready4
    \/ IpRecv
    \/ IpClose

FairSpec ==
    Init /\ [][FairNext]_vars /\ WF_vars(RunSelectUngrouped) /\ WF_vars(SendResume)

(***************************************************************************)
(* The split loop of one slot, turn by turn (lines 209-217 and 233-241),   *)
(* for any length and any stride                                           *)
(***************************************************************************)
SplitAddrs == {"p", "q"}

SplitSlots ==
    UNION {{[buf |-> d, meta |-> RecvMeta(a, len, st)] :
              d \in ByteSeqs(len), a \in SplitAddrs, st \in 0..(MaxLen + 1)} :
           len \in 0..MaxLen}

SplitInit ==
    /\ ActorInit
    /\ pconn6 = TRUE
    /\ split \in {[pc |-> "loop", slot |-> sl, network |-> n,
                   stride |-> sl.meta.stride, data |-> SlotData(sl),
                   meta |-> sl.meta, out |-> <<>>] :
                    sl \in SplitSlots, n \in {"Ipv4", "Ipv6"}}

\* one turn of `while !data.is_empty()`; a loop that no longer shortens data
\* is followed for MaxLen + 1 packets
SplitStep ==
    /\ split.pc = "loop"
    /\ split.data # <<>>
    /\ Len(split.out) <= MaxLen
    /\ LET s == SplitOnce(split.data, split.stride, split.meta)
       IN split' = [split EXCEPT !.data = s.rest, !.meta = s.meta,
                                 !.out = handle_packet(split.out, s.buf,
                                                       split.network, s.meta)]
    /\ UNCHANGED <<pc, ctrl, ctrlOpen, closed, pconn6, out_buffer, wakers, ip_chan,
                   ipOpen, sending, pending, last, spent>>

\* data.is_empty(): the loop is left
SplitExit ==
    /\ split.pc = "loop"
    /\ split.data = <<>>
    /\ split' = [split EXCEPT !.pc = "done"]
    /\ UNCHANGED <<pc, ctrl, ctrlOpen, closed, pconn6, out_buffer, wakers, ip_chan,
                   ipOpen, sending, pending, last, spent>>

SplitNext == SplitStep \/ SplitExit

SplitSpec == SplitInit /\ [][SplitNext]_vars

\* the split loop runs inside one call of poll_next: while it can take a
\* turn, it does
FairSplitSpec == SplitInit /\ [][SplitNext]_vars /\ WF_vars(SplitNext)

(***************************************************************************)
(* Properties                                                              *)
(***************************************************************************)
\* no message is added to the transport channel in this step
NoNewTransportMsg == Len(ip_chan') <= Len(ip_chan) /\ sending' = sending

SendBlocked == pc = "send" /\ ipOpen /\ Len(ip_chan) >= IpCap

NoStunInFlight ==
    /\ \A i \in 1..Len(ip_chan) :
         IsForwardOk(ip_chan[i]) => ~stun_is(ip_chan[i].res.bytes)
    /\ IsForwardOk(sending) => ~stun_is(sending.res.bytes)

\* C3: a packet for which stun::is holds is never sent on the transport
\* channel: the step that pulls it attempts no send and adds no message,
\* neither Disco nor Forward, whether or not it was offered to the STUN
\* consumer and whether or not it carries the disco prefix.
C3_StunNeverOnTransport ==
    /\ []NoStunInFlight
    /\ [][(last'.ret = "Item" /\ stun_is(last'.bytes)) =>
            (last'.class = "stun" /\ last'.send = "-" /\ NoNewTransportMsg)]_vars

\* C3 witness: a packet that matches both the STUN predicate and the disco
\* prefix was pulled while the flag was off
C3_Witness ==
    /\ last.ret = "Item" /\ stun_is(last.bytes)
    /\ disco_source_and_box(last.bytes).some
    /\ last.stun = "off"

\* C4: a failed send on the transport channel ends the actor at once,
\* whichever of Disco, Forward Ok and Forward Error was being sent, and
\* whether the send failed at once or after it had been suspended; an ended
\* actor pulls and sends nothing more.
C4_SendFailureIsFatal ==
    /\ [](last.send = "closed" => (pc = "done" /\ last.class \in {"disco", "forward", "error"}))
    /\ [][pc = "done" => (pc' = "done" /\ UNCHANGED <<out_buffer, last>> /\ NoNewTransportMsg)]_vars

\* C4 witness: a suspended send of a Forward failed and ended the actor with
\* packets still queued
C4_Witness ==
    /\ pc = "done" /\ last.br = "resume" /\ last.send = "closed"
    /\ last.class = "forward" /\ out_buffer # <<>>

\* C5: the closure check precedes the queue drain.  A pull made while the
\* connection is marked closed returns end of stream, takes nothing from
\* the queue, reads no socket, and the actor ends.
C5_ClosedBeforeDrain ==
    [][(pc = "select" /\ closed /\ (ctrl = <<>> \/ spent)) =>
         \/ /\ pc' = "done"
            /\ last'.br = "stream" /\ last'.ret = "None" /\ last'.polls = <<>>
            /\ UNCHANGED <<out_buffer, ip_chan, sending, pending>>
         \/ /\ pc' = "select"
            /\ UNCHANGED <<out_buffer, last>>
            /\ NoNewTransportMsg /\ Len(pending') <= Len(pending)]_vars

\* C5 witness: end of stream was returned with packets left in the queue
C5_Witness == pc = "done" /\ last.ret = "None" /\ closed /\ out_buffer # <<>>

\* C6: every batched read, on either socket, was issued with an empty output
\* queue, the IPv4 read that follows an IPv6 read in the same pull included.
C6_ReadOnlyWhenQueueEmpty ==
    \A i \in 1..Len(last.polls) : last.polls[i].qlen = 0

\* C6 witness: a pull read IPv6, which was ready, and then IPv4, which
\* brought packets
C6_Witness ==
    /\ Len(last.polls) = 2
    /\ last.polls[1].net = "Ipv6" /\ last.polls[1].res = "Ok"
    /\ last.polls[2].net = "Ipv4" /\ last.polls[2].pkts > 0

RECURSIVE ConcatBytes(_)
ConcatBytes(items) ==
    IF items = <<>> THEN <<>> ELSE Head(items).bytes \o ConcatBytes(Tail(items))

SplitDone == split.pc = "done"
SplitL == split.slot.meta.len
SplitS == split.slot.meta.stride

\* C7: a slot of length L and stride S > 0 is split into exactly ceil(L/S)
\* packets, which are the slot's bytes in order (so their lengths sum to L);
\* each is at most S long and reports its own length as len and as stride.
C7_SplitCountAndLengths ==
    (SplitDone /\ SplitS > 0) =>
        /\ Len(split.out) = CeilDiv(SplitL, SplitS)
        /\ ConcatBytes(split.out) = SlotData(split.slot)
        /\ \A i \in 1..Len(split.out) :
             /\ Len(split.out[i].bytes) <= SplitS
             /\ split.out[i].meta.len = Len(split.out[i].bytes)
             /\ split.out[i].meta.stride = Len(split.out[i].bytes)

\* C7 witness: a slot whose length is no multiple of its stride was split
\* into several packets
C7_Witness ==
    SplitDone /\ SplitS > 0 /\ SplitL % SplitS # 0 /\ Len(split.out) >= 2

\* C8 as stated: a slot with S >= L, S > 0 and any L, L = 0 included, is
\* split into exactly one packet, the whole slot.
C8_Original ==
    (SplitDone /\ SplitS > 0 /\ SplitS >= SplitL) =>
        (Len(split.out) = 1 /\ split.out[1].bytes = SlotData(split.slot))

\* C8 amended: a slot with S >= L and L >= 1 is split into exactly one
\* packet, the whole slot, of length L.  (A slot of length 0 gives no packet.)
C8_WholeSlotWhenStrideCovers ==
    (SplitDone /\ SplitS >= SplitL /\ SplitL >= 1) =>
        /\ Len(split.out) = 1
        /\ split.out[1].bytes = SlotData(split.slot)
        /\ split.out[1].meta.len = SplitL

\* C8 witness: a slot of several bytes whose stride exceeds its length was split
C8_Witness ==
    SplitDone /\ SplitL >= 2 /\ SplitS > SplitL /\ Len(split.out) = 1

\* the transport messages that carry a packet and are in flight, oldest first
PacketMsgsInFlight ==
    SelectSeq(IF sending = NoMsg THEN ip_chan ELSE Append(ip_chan, sending),
              LAMBDA m : PacketMsg(m))

\* the queued packets that do not match the STUN predicate, oldest first
QueuedNonProbe == SelectSeq(out_buffer, LAMBDA it : ~stun_is(it.bytes))

\* message m is the datagram d handed on: a Forward with its bytes, family
\* and address, or a Disco with its key, sealed box and address
MsgIsDatagram(m, d) ==
    IF IsForwardOk(m)
    THEN /\ m.res.bytes = d.bytes
         /\ m.res.source = NetworkSource(d.network)
         /\ m.res.meta.addr = d.addr /\ m.res.meta.len = Len(d.bytes)
    ELSE /\ m.type = "Disco"
         /\ disco_source_and_box(d.bytes).some
         /\ m.source = disco_source_and_box(d.bytes).source
         /\ m.sealed_box = disco_source_and_box(d.bytes).sealed_box
         /\ m.src = d.addr

ItemIsDatagram(it, d) ==
    it.bytes = d.bytes /\ it.network = d.network /\ it.meta.addr = d.addr

\* C9: while the actor runs, the connection is open and the consumer is
\* there, the datagrams that were read and that the consumer has not taken
\* yet (pending: the non-probe datagrams of every batch, in slot order and
\* byte order, less one for each packet message taken) are exactly the
\* packet messages in flight followed by the non-probe packets still queued,
\* in that order: nothing is lost, duplicated or reordered on the way.
C9_DeliveredInArrivalOrder ==
    (pc # "done" /\ ~closed /\ ipOpen) =>
        LET ms == PacketMsgsInFlight
            qs == QueuedNonProbe
        IN /\ Len(pending) = Len(ms) + Len(qs)
           /\ \A i \in 1..Len(ms) : MsgIsDatagram(ms[i], pending[i])
           /\ \A j \in 1..Len(qs) : ItemIsDatagram(qs[j], pending[Len(ms) + j])

\* C9 witness: two Forwards of one byte each, cut from one batch, are on
\* their way in order: the first in the channel, the second being sent
C9_Witness ==
    /\ pc = "send" /\ ~closed /\ ipOpen
    /\ Len(ip_chan) = 1 /\ IsForwardOk(ip_chan[1]) /\ IsForwardOk(sending)
    /\ ip_chan[1].res.bytes # sending.res.bytes
    /\ Len(pending) = 2

\* C10: the IPv6 reader, when there is one, is the first reader a pull
\* polls; the IPv4 reader is polled after it only if the IPv6 read gave no
\* packet (it was pending, or ready without data), and then with no IPv6
\* packet waiting in the queue; without an IPv6 reader only IPv4 is polled.
C10_Ipv6First ==
    LET polls == last.polls
    IN /\ (pconn6 /\ polls # <<>>) => polls[1].net = "Ipv6"
       /\ ~pconn6 => \A i \in 1..Len(polls) : polls[i].net = "Ipv4"
       /\ Len(polls) <= 2
       /\ Len(polls) = 2 =>
            /\ polls[2].net = "Ipv4"
            /\ polls[1].res \in {"Pending", "Ok"} /\ polls[1].pkts = 0
            /\ polls[2].qlen = 0

\* C10 witness: a pull found the IPv6 reader pending and then took packets
\* from the IPv4 reader
C10_Witness ==
    /\ Len(last.polls) = 2
    /\ last.polls[1].net = "Ipv6" /\ last.polls[1].res = "Pending"
    /\ last.polls[2].net = "Ipv4" /\ last.polls[2].res = "Ok" /\ last.polls[2].pkts > 0

\* a step of the actor's stream arm, as opposed to a step of its
\* environment: taken at the select, it leaves the control channel, the
\* closed flag and the consumer's end of the transport channel alone and
\* takes no message out of the transport channel
StreamArmStep ==
    /\ pc = "select" /\ (ctrl = <<>> \/ spent)
    /\ UNCHANGED <<ctrl, ctrlOpen, closed, ipOpen>>
    /\ Len(ip_chan') >= Len(ip_chan)

\* C11: a whole-call I/O error of a reader is surfaced once and is not
\* fatal.  The pull that meets it returns it at once: the step sends exactly
\* one Forward(Error) (queued, or held by the send it suspends in, be it
\* for want of room or of budget), puts nothing
\* in the output queue, and the actor goes on (back to the select when the
\* message was queued); only a failed send ends it.  The queue being empty,
\* the next pull of an open connection reads the sockets again.
C11_ReadErrorSurfacedOnce ==
    /\ [](last.ret = "Err" =>
            /\ last.class = "error" /\ out_buffer = <<>>
            /\ last.polls[Len(last.polls)].res = "Err"
            /\ last.send \in {"sent", "blocked", "yield", "closed"}
            /\ last.send = "sent" => pc = "select"
            /\ last.send \in {"blocked", "yield"} =>
                 (pc = "send" /\ sending = ForwardError("io"))
            /\ pc = "done" => last.send = "closed")
    /\ [][(StreamArmStep /\ last'.ret = "Err") =>
            /\ out_buffer' = out_buffer
            /\ pending' = pending
            /\ last'.send = "sent" =>
                 (ip_chan' = Append(ip_chan, ForwardError("io")) /\ sending' = NoMsg)
            /\ last'.send # "sent" => ip_chan' = ip_chan]_vars
    /\ [][(StreamArmStep /\ last.ret = "Err" /\ ~closed /\ last'.br = "stream")
            => last'.polls # <<>>]_vars

\* C11 witness: the IPv4 read failed after an IPv6 read without data; the
\* error is in the transport channel and the actor is back at the select
C11_Witness ==
    /\ pc = "select" /\ last.ret = "Err" /\ last.send = "sent"
    /\ Len(last.polls) = 2
    /\ ip_chan # <<>> /\ ip_chan[Len(ip_chan)] = ForwardError("io")

\* C12: probe delivery is best effort and never blocks.  A STUN packet is
\* offered to the probe consumer exactly when enable_stun_packets was set as
\* it was classified, by try_send; whether it was queued, refused by a full
\* channel, refused by a closed one or not offered at all, the step sends
\* nothing on the transport channel, suspends nowhere and leaves the actor
\* at the top of its loop.
C12_ProbeBestEffort ==
    /\ []((last.br = "stream" /\ last.class = "stun") =>
            /\ stun_is(last.bytes)
            /\ last.flag \in {"on", "off"}
            /\ last.flag = "on" <=> last.stun \in {"Ok", "Full", "Closed"}
            /\ last.flag = "off" <=> last.stun = "off"
            /\ last.send = "-"
            /\ pc = "select" /\ sending = NoMsg)
    /\ [][(StreamArmStep /\ last'.class = "stun") =>
            (pc' = "select" /\ ip_chan' = ip_chan /\ sending' = NoMsg
             /\ wakers' = {})]_vars

\* C12 witness: a STUN packet was offered with the flag set, the probe
\* channel was full, and the actor is at the top of its loop with more
\* packets queued
C12_Witness ==
    /\ last.class = "stun" /\ last.flag = "on" /\ last.stun = "Full"
    /\ pc = "select" /\ out_buffer # <<>>

\* the readers the actor has: IPv4 always, IPv6 when configured
PresentReaders == IF pconn6 THEN {"Ipv6", "Ipv4"} ELSE {"Ipv4"}

\* C13 as stated: whenever poll_next returns Pending, every present reader
\* answered Pending in that pull and so holds the task's waker, including
\* after a read that was ready but produced no packet.
C13_NoLostWakeup ==
    pc = "parked" =>
        /\ \A i \in 1..Len(last.polls) : last.polls[i].res = "Pending"
        /\ PresentReaders \subseteq wakers

\* C13, the state that refutes it: the actor is suspended in a pull whose
\* IPv4 read was ready without a packet, and no reader holds its waker
C13_ParkedWithoutWaker ==
    /\ pc = "parked" /\ ~pconn6
    /\ last.polls[1].res = "Ok" /\ last.polls[1].pkts = 0
    /\ wakers \cap PresentReaders = {}

SentInStep ==
    IF Len(ip_chan') > Len(ip_chan)
    THEN SubSeq(ip_chan', Len(ip_chan) + 1, Len(ip_chan'))
    ELSE IF sending' # NoMsg THEN <<sending'>> ELSE <<>>

\* the address family of the packet the step pulls: that of the front of
\* the queue, or of the reader whose read produced it
PulledNetwork ==
    IF out_buffer # <<>> THEN Head(out_buffer).network
    ELSE last'.polls[Len(last'.polls)].net

\* C15: classification is ordered and exclusive.  A pulled packet is
\* classified by the first rule that matches among probe, discovery,
\* forward, and the step hands at most one message to the transport
\* channel: none for a probe; for a non-probe packet with the discovery
\* prefix one Disco with the key, the sealed box and the source address of
\* the packet, and no Forward; for any other packet one Forward Ok with the
\* packet's bytes and metadata, tagged Ipv4 or Ipv6 after the reader the
\* packet came from.  (A send that finds the consumer gone hands over
\* nothing and ends the actor.)
C15_ClassificationOrderedExclusive ==
    [][(StreamArmStep /\ last'.ret = "Item") =>
         LET b == last'.bytes
             d == disco_source_and_box(b)
             out == SentInStep
             attempted == last'.send \in {"sent", "blocked", "yield"}
         IN /\ Len(out) <= 1
            /\ last'.class = (IF stun_is(b) THEN "stun"
                              ELSE IF d.some THEN "disco" ELSE "forward")
            /\ last'.class = "stun" => (out = <<>> /\ last'.send = "-")
            /\ last'.class # "stun" =>
                 /\ last'.send \in {"sent", "blocked", "yield", "closed"}
                 /\ last'.send = "closed" => out = <<>>
                 /\ attempted => Len(out) = 1
            /\ (last'.class = "disco" /\ attempted) =>
                 /\ out[1].type = "Disco"
                 /\ out[1].source = d.source /\ out[1].sealed_box = d.sealed_box
                 /\ out[1].src \in Addrs
                 /\ out_buffer # <<>> => out[1].src = Head(out_buffer).meta.addr
            /\ (last'.class = "forward" /\ attempted) =>
                 /\ IsForwardOk(out[1])
                 /\ out[1].res.bytes = b
                 /\ out[1].res.source \in {"Ipv4", "Ipv6"}
                 /\ out[1].res.source = PulledNetwork
                 /\ out[1].res.meta.len = Len(b)
                 /\ out_buffer # <<>> => out[1].res.meta = Head(out_buffer).meta]_vars

\* C15 witness: a packet with the discovery prefix that is no probe was read
\* from the IPv6 socket and went out as a Disco message
C15_Witness ==
    /\ last.class = "disco" /\ ~stun_is(last.bytes) /\ last.send = "sent"
    /\ last.polls # <<>> /\ last.polls[Len(last.polls)].net = "Ipv6"
    /\ ip_chan # <<>> /\ ip_chan[Len(ip_chan)].type = "Disco"

\* C16 as stated: once the connection is marked closed the actor eventually
\* terminates in every fair execution, including when it is suspended
\* waiting for socket readiness and neither a datagram nor a control
\* message arrives.
C16_ClosureEventuallyObserved ==
    /\ closed ~> (pc = "done")
    /\ (closed /\ pc = "parked") ~> (pc = "done")

\* C16, the state the refuting execution stays in: the connection is
\* closed while the actor is suspended in a pull, with no control message
\* waiting
C16_ParkedWhileClosed ==
    /\ closed /\ pc = "parked" /\ ctrl = <<>>
    /\ last.ret = "Pending"

\* C17: the packets cut from a slot carry the slot's metadata unchanged
\* but for len and stride: each has the slot's source address and the
\* address family of the reader the slot came from; and the stride that cuts
\* the slot stays the one the slot reported, whatever was written into the
\* metadata of the packets already cut: with S > 0 the i-th packet is
\* min(S, L - (i-1)*S) bytes long.
C17_SplitKeepsMetadata ==
    split.pc \in {"loop", "done"} =>
        /\ split.stride = SplitS
        /\ \A i \in 1..Len(split.out) :
             /\ split.out[i].network = split.network
             /\ split.out[i].meta.addr = split.slot.meta.addr
             /\ [split.out[i].meta EXCEPT !.len = SplitL, !.stride = SplitS]
                  = split.slot.meta
             /\ SplitS > 0 =>
                  Len(split.out[i].bytes) = Min(SplitS, SplitL - (i - 1) * SplitS)

\* C17 witness: a slot from address q read on IPv6 was cut into several
\* packets, the last one shorter than the stride
C17_Witness ==
    /\ SplitDone /\ Len(split.out) >= 2
    /\ split.slot.meta.addr = "q" /\ split.network = "Ipv6"
    /\ split.out[Len(split.out)].meta.stride < SplitS

\* C18: the output queue holds the packets of one batched read only, the
\* most recent one.  Its items all have the same address family; packets
\* enter it only in a pull that found it empty, all from the one read of
\* that pull that produced packets (any read before it in the pull produced
\* none), one of which the pull returns at once, so that the queue is
\* shorter than the number of packets the read was split into; every other
\* change of the queue takes its front item away.
C18_QueueHoldsOneRead ==
    /\ [](\A i, j \in 1..Len(out_buffer) : out_buffer[i].network = out_buffer[j].network)
    /\ [][out_buffer' # out_buffer =>
            \/ (out_buffer # <<>> /\ out_buffer' = Tail(out_buffer) /\ last'.polls = <<>>)
            \/ /\ out_buffer = <<>> /\ last'.polls # <<>>
               /\ LET n == Len(last'.polls)
                      r == last'.polls[n]
                  IN /\ r.res = "Ok" /\ r.qlen = 0
                     /\ Len(out_buffer') = r.pkts - 1
                     /\ \A i \in 1..Len(out_buffer') : out_buffer'[i].network = r.net
                     /\ \A k \in 1..(n - 1) : last'.polls[k].pkts = 0]_vars

\* C18 witness: an IPv4 read that followed an IPv6 read without packets was
\* split into several packets, of which all but the first are queued
C18_Witness ==
    /\ Len(last.polls) = 2 /\ last.polls[1].res = "Ok" /\ last.polls[2].pkts >= 2
    /\ Len(out_buffer) = last.polls[2].pkts - 1
    /\ out_buffer[1].network = "Ipv4"

\* C19: the actor ends only by a Shutdown message it received, by end of
\* stream from the pull (the connection is closed), or by a failed send on
\* the transport channel.  While no Shutdown is queued, the connection is
\* open and the transport consumer is there, no step ends it: not the loss of
\* every control sender, not a read error, not a probe that was dropped or
\* refused.  Once ended it reads and sends nothing.
C19_ThreeWaysOut ==
    /\ [](pc = "done" =>
            \/ last.br = "ctrl"
            \/ (last.br = "stream" /\ last.ret = "None")
            \/ (last.send = "closed" /\ last.class \in {"disco", "forward", "error"}))
    /\ []((last.class = "stun" \/ (last.ret = "Err" /\ last.send # "closed")) => pc # "done")
    /\ [][(pc # "done" /\ pc' = "done") =>
            \/ (ctrl # <<>> /\ Head(ctrl) = "Shutdown" /\ ctrl' = Tail(ctrl) /\ last'.br = "ctrl")
            \/ (closed /\ last'.ret = "None")
            \/ (~ipOpen /\ last'.send = "closed")]_vars
    /\ [][(pc # "done" /\ ctrl = <<>> /\ ~closed /\ ipOpen) => pc' # "done"]_vars
    /\ [][(ctrlOpen /\ ~ctrlOpen') => (pc' # "done" /\ ctrl' = <<>>)]_vars
    /\ [][pc = "done" =>
            /\ UNCHANGED <<pc, out_buffer, sending, wakers, last>>
            /\ \E k \in 0..Len(ip_chan) : ip_chan' = SubSeq(ip_chan, k + 1, Len(ip_chan))
            /\ Len(pending') <= Len(pending)]_vars

\* C19 witness: every control sender is gone without a Shutdown, a read
\* error has been forwarded, and the actor is still running
C19_Witness ==
    /\ ~ctrlOpen /\ ctrl = <<>> /\ pc = "select"
    /\ last.br = "stream" /\ last.ret = "Err" /\ last.send = "sent"

====
